---- MODULE Spec2Model ----
(***************************************************************************)
(* ChickenCartel Order Tracker as state machines: the Order Status Poller  *)
(* (custom_components/chickencartel/coordinator.py), the Order ID          *)
(* Extractor (email_parser.py) and the Email Monitor (email_monitor.py).   *)
(*                                                                         *)
(* Strings are sequences of characters, so that str.strip() and            *)
(* str.lower() are computed and not assumed.  In mail text a character     *)
(* stands for a run of characters the regular expressions treat as a unit  *)
(* (an identifier, a label, a tag); see "Mail text".  An Optional value is *)
(* a sequence of length at most one: None is <<>>, a present value x is    *)
(* <<x>>.  A dict is a record whose DOMAIN is the dict's key set.          *)
(***************************************************************************)
EXTENDS Integers, Sequences, FiniteSets, TLC

VARIABLES
    order_id,          \* self.order_id
    polling_interval,  \* self._polling_interval (seconds)
    polling_active,    \* self._polling_active
    update_interval,   \* self.update_interval: None or timedelta(seconds=n)
    data,              \* self.data: None or the last result dict
    last,              \* what the last operation did (request, result, exception)
    email,             \* the arguments of extract_order_id_from_email
    extracted,         \* what extract_order_id_from_email returned for them
    extract_exc,       \* the exception extract_order_id_from_email raised
    last_uid,          \* EmailMonitor._last_uid
    imap_client,       \* EmailMonitor._imap_client is set
    cycle,             \* where the check cycle of the monitor is, what it did
    processed,         \* how often _process_email was called, per message
    candidate,         \* the argument of validate_order_id, character by character
    verdict,           \* what validate_order_id returned for it
    pollers,           \* hass.data[DOMAIN]: the coordinator of each entry id
    entries,           \* the data of each config entry
    call,              \* the last call the host made: a service call, a refresh
    flow,              \* the config flow: its _email_data, what its last step returned
    inflight           \* the refreshes suspended on their GET, and what they did

poller_vars ==
    <<order_id, polling_interval, polling_active, update_interval, data, last>>

extractor_vars == <<email, extracted, extract_exc>>

monitor_vars == <<last_uid, imap_client, cycle, processed>>

validator_vars == <<candidate, verdict>>

service_vars == <<pollers, entries, call>>

\* the state of the host's other entry points
host_vars == <<validator_vars, service_vars, flow, inflight>>

vars == <<order_id, polling_interval, polling_active, update_interval, data, last,
          email, extracted, extract_exc, last_uid, imap_client, cycle, processed,
          host_vars>>

----------------------------------------------------------------------------
(* Bounds of the model *)

\* longest run of whitespace before or after a candidate identifier
MaxPad == 1
\* most refreshes suspended on their GET at the same time
MaxPending == 2
\* longest identifier string given to the constructor or to update_order_id
MaxIdLen == 2
\* largest vendor status code a response carries (the smallest is -2)
MaxCode == 8
\* a configured polling interval other than the default
AltPollingInterval == 30
\* most atoms in the subject, body and HTML body of a mail together
MaxTextLen == 3
\* largest message number of the mailbox
MaxUid == 2

----------------------------------------------------------------------------
(* Python values *)

None == <<>>
Some(x) == <<x>>

\* the characters identifiers are made of: a lowercase letter, its uppercase
\* form and a whitespace character
Chars == {"a", "A", " "}

Strings == UNION {[1..n -> Chars] : n \in 0..MaxIdLen}

\* the order identifiers mail text carries: one written in lowercase, one in
\* uppercase hex digits, and the lowercase form of the latter
Uuid1 == "68b9e014-3378-4bb3-b121-5a5200d1453b"

Uuid2Upper == "123E4567-E89B-12D3-A456-426614174000"

Uuid2 == "123e4567-e89b-12d3-a456-426614174000"

IsSpace(c) == c \in {" ", "\n"}

LowerChar(c) ==
    CASE c = "A" -> "a"
      [] c = "F" -> "f"
      [] c = "G" -> "g"
      [] c = Uuid2Upper -> Uuid2
      [] c = "ChickenCartel.nl" -> "chickencartel.nl"
      [] c = "Order:" -> "order:"
      [] OTHER -> c

\* str.lower()
Lower(s) == [i \in 1..Len(s) |-> LowerChar(s[i])]

RECURSIVE LStrip(_)
LStrip(s) == IF s # <<>> /\ IsSpace(Head(s)) THEN LStrip(Tail(s)) ELSE s

RECURSIVE RStrip(_)
RStrip(s) ==
    IF s # <<>> /\ IsSpace(s[Len(s)]) THEN RStrip(SubSeq(s, 1, Len(s) - 1)) ELSE s

\* str.strip()
Strip(s) == RStrip(LStrip(s))

----------------------------------------------------------------------------
(* const.py *)

DEFAULT_POLLING_INTERVAL == 15

\* the table with the labels of codes 5 and 6 exchanged
STATUS_MAP_swapped ==
    (-1 :> "failed") @@ (0 :> "cancelled") @@ (1 :> "received") @@ (2 :> "pos")
    @@ (3 :> "accepted") @@ (4 :> "preparing") @@ (5 :> "en_route")
    @@ (6 :> "waiting_for_driver") @@ (7 :> "completed")

STATUS_MAP ==
    (-1 :> "failed") @@ (0 :> "cancelled") @@ (1 :> "received") @@ (2 :> "pos")
    @@ (3 :> "accepted") @@ (4 :> "preparing") @@ (5 :> "waiting_for_driver")
    @@ (6 :> "en_route") @@ (7 :> "completed")

FINAL_STATES == {"completed", "cancelled", "failed"}

----------------------------------------------------------------------------
(* The vendor endpoint, as the poller sees it *)

\* the value of the OrderHarmonyStatus field of a JSON body: an integer, or
\* None when the field is absent or null
VendorCodes == {None} \cup {Some(c) : c \in (-2)..MaxCode}

\* the JSON body of a 200 response
Payloads == [OrderHarmonyStatus : VendorCodes]

\* exceptions session.get() raises: connection refused and DNS failure are
\* aiohttp.ClientError subclasses; the expiry of ClientTimeout(total=10) is
\* asyncio.TimeoutError, which is no aiohttp.ClientError
NetworkFailures ==
    { [cls |-> "ClientConnectorError", msg |-> "connection refused"],
      [cls |-> "ClientConnectorDNSError", msg |-> "dns failure"],
      [cls |-> "TimeoutError", msg |-> "timeout"] }

HttpStatuses == {200, 204, 404, 500}

\* every outcome of one GET {API_BASE_URL}/{order_id}/status
HttpOutcomes ==
    { [kind |-> "response", status |-> 200, body |-> p] : p \in Payloads }
    \cup { [kind |-> "response", status |-> s] : s \in HttpStatuses \ {200} }
    \cup { [kind |-> "failure", err |-> e] : e \in NetworkFailures }

----------------------------------------------------------------------------
(* coordinator.py: ChickenCartelCoordinator *)

\* the coordinator object of the current state
Self ==
    [order_id |-> order_id, polling_interval |-> polling_interval,
     polling_active |-> polling_active, update_interval |-> update_interval,
     data |-> data]

\* __init__(hass, order_id, polling_interval): the identifier is stored as given
Construct(oid, seconds) ==
    [order_id |-> oid, polling_interval |-> seconds, polling_active |-> TRUE,
     update_interval |-> Some(seconds), data |-> None]

\* STATUS_MAP.get(harmony_status, "unknown")
StatusFor(harmony_status) ==
    IF harmony_status # None /\ harmony_status[1] \in DOMAIN STATUS_MAP
    THEN STATUS_MAP[harmony_status[1]]
    ELSE "unknown"

\* _stop_polling() that forgets to clear the refresh interval
stop_polling_keeps_interval(self) == [self EXCEPT !.polling_active = FALSE]

\* _stop_polling()
stop_polling(self) ==
    [self EXCEPT !.polling_active = FALSE, !.update_interval = None]

\* the short circuit with its `not` dropped
ReturnsCached_when_active(self) == self.polling_active /\ self.data # None

\* `if not self._polling_active and self.data`
ReturnsCached(self) == ~self.polling_active /\ self.data # None

\* `except aiohttp.ClientError`
IsClientError(err) ==
    err.cls \in {"ClientConnectorError", "ClientConnectorDNSError"}

\* the 404 dict with the order's status left out of the vocabulary
NotFoundResult_not_found(self) ==
    [order_id |-> self.order_id, order_harmony_status |-> None,
     status |-> "not_found", error |-> "Order not found"]

\* the dict returned for HTTP 404
NotFoundResult(self) ==
    [order_id |-> self.order_id, order_harmony_status |-> None,
     status |-> "unknown", error |-> "Order not found"]

\* the dict returned from the except branch: error is str(err)
ErrorResult(self, err) ==
    [order_id |-> self.order_id, order_harmony_status |-> None,
     status |-> "unknown", error |-> err.msg]

\* the dict built from the JSON body of a 200 response
OkResult(self, body) ==
    LET harmony_status == body.OrderHarmonyStatus
    IN  [order_id |-> self.order_id, order_harmony_status |-> harmony_status,
         status |-> StatusFor(harmony_status), raw_data |-> body]

\* `if status in FINAL_STATES: self._stop_polling()`
AfterResult(self, result) ==
    IF result.status \in FINAL_STATES THEN stop_polling(self) ELSE self

\* `if response.status != 200: raise UpdateFailed(...)`, reached when the
\* status is not 404
RaisesUpdateFailed(status) == status # 200

\* One run of a method: the object afterwards, what it returned (None when it
\* raised), the exception it raised, the order id of the URL it requested (None
\* when no request was made) and the outcome of that request.
Returned(self, result, http) ==
    [self |-> self, ret |-> Some(result), raised |-> "none",
     requested |-> Some(self.order_id), http |-> Some(http)]

Raised(self, exc, http) ==
    [self |-> self, ret |-> None, raised |-> exc,
     requested |-> Some(self.order_id), http |-> Some(http)]

\* UpdateFailed swallowed by a broad except clause and turned into a result
UpdateFailed_swallowed(self, http) ==
    Returned(self, ErrorResult(self, [cls |-> "UpdateFailed", msg |-> "API returned status"]), http)

\* `raise UpdateFailed(...)`: no except clause of the method catches it
UpdateFailed(self, http) == Raised(self, "UpdateFailed", http)

\* an exception of session.get(): caught by `except aiohttp.ClientError` and
\* turned into a result, or raised out of the method
RequestFailed(self, http) ==
    IF IsClientError(http.err)
    THEN Returned(self, ErrorResult(self, http.err), http)
    ELSE Raised(self, http.err.cls, http)

\* _async_update_data() from the answer of its GET on: `self` is the object
\* as it is when the method resumes
AfterGet(self, http) ==
    IF http.kind = "failure"
    THEN RequestFailed(self, http)
    ELSE IF http.status = 404
    THEN Returned(self, NotFoundResult(self), http)
    ELSE IF RaisesUpdateFailed(http.status)
    THEN UpdateFailed(self, http)
    ELSE LET result == OkResult(self, http.body)
         IN  Returned(AfterResult(self, result), result, http)

\* _async_update_data(), the GET answered by `http`
async_update_data(self, http) ==
    IF ReturnsCached(self)
    THEN [self |-> self, ret |-> self.data, raised |-> "none",
          requested |-> None, http |-> None]
    ELSE AfterGet(self, http)

\* One refresh cycle of the DataUpdateCoordinator base class: the value
\* _async_update_data() returns becomes self.data; when it raises, self.data is
\* kept and the exception goes to the host's update-failure handling.
async_refresh(self, http) ==
    LET r == async_update_data(self, http)
    IN  IF r.raised = "none"
        THEN [r EXCEPT !.self = [r.self EXCEPT !.data = r.ret]]
        ELSE r

\* `new_order_id.strip().lower() == self.order_id.lower()`
OrderIdUnchanged(self, new_order_id) ==
    Lower(Strip(new_order_id)) = Lower(self.order_id)

\* the new identifier stored without lowercasing
NewOrderId_not_lowered(new_order_id) == Strip(new_order_id)

\* `self.order_id = new_order_id.strip().lower()`
NewOrderId(new_order_id) == Lower(Strip(new_order_id))

\* the reset that sets the flag again but not the refresh interval
ResetPolling_keeps_interval(self, new_order_id) ==
    [self EXCEPT !.order_id = NewOrderId(new_order_id),
                 !.polling_active = TRUE,
                 !.data = None]

\* update_order_id up to the forced refresh: new id, polling reset, data cleared
ResetPolling(self, new_order_id) ==
    [self EXCEPT !.order_id = NewOrderId(new_order_id),
                 !.polling_active = TRUE,
                 !.update_interval = Some(self.polling_interval),
                 !.data = None]

\* the part of the object update_order_id resets, as the forced refresh finds it
Snapshot(self) ==
    [polling_active |-> self.polling_active,
     update_interval |-> self.update_interval, data |-> self.data]

----------------------------------------------------------------------------
(* sensor.py: ChickenCartelOrderSensor, over the coordinator it shows *)

\* the property is_polling_active of the coordinator
is_polling_active(self) == self.polling_active

\* the dict {}
EmptyDict == [k \in {} |-> None]

\* native_value: None without data, else data.get("status", "unknown")
native_value(self) ==
    IF self.data = None THEN None
    ELSE IF "status" \in DOMAIN self.data[1] THEN Some(self.data[1].status)
    ELSE Some("unknown")

\* extra_state_attributes: {} without data; the error only when data has one
extra_state_attributes(self) ==
    IF self.data = None THEN EmptyDict
    ELSE [order_id |-> self.data[1].order_id,
          order_harmony_status |-> self.data[1].order_harmony_status,
          polling_active |-> is_polling_active(self)]
         @@ (IF "error" \in DOMAIN self.data[1]
             THEN [error |-> self.data[1].error]
             ELSE EmptyDict)

\* a sensor that is unavailable while the cached result carries an error
available_when_no_error(self) ==
    self.data # None /\ "error" \notin DOMAIN self.data[1]

\* available: `self.coordinator.data is not None`
available(self) == self.data # None

----------------------------------------------------------------------------
(* Mail text *)

(* A text is a sequence of atoms.  An atom is a run of characters that every *)
(* regular expression of the extractor and every substring test of the        *)
(* monitor treats as a unit:                                                  *)
(*   an order identifier (36 characters, 8-4-4-4-12 hex digits);              *)
(*   a label "order:", "orderid:" or "bestelnummer:";                         *)
(*   "href=", a double quote, a tag "<b>", the host name "chickencartel.nl";  *)
(*   " " and "\n"; ":"; the word "x" (no hex digit, no character of the       *)
(*   above);  "<b" is the part of a tag an href URL runs into.                *)
(* The text the program sees is the concatenation of the atoms.               *)

UuidAtoms == {Uuid1, Uuid2, Uuid2Upper}

\* [0-9a-f]{8}-[0-9a-f]{4}-[0-9a-f]{4}-[0-9a-f]{4}-[0-9a-f]{12} under re.IGNORECASE
IsUuid(a) == a \in UuidAtoms

IsQuote(a) == a \in {"\"", "'"}

\* an atom an `<[^>]+>` match covers
IsTag(a) == a = "<b>"

\* [:\s]
IsSep(a) == a = ":" \/ IsSpace(a)

\* the pieces of text an atom starts with, itself included
Prefixes(a) ==
    CASE a = "chickencartel.nl" -> {"chickencartel.nl", "chickencartel"}
      [] a = "dehamburgerij.nl" -> {"dehamburgerij.nl", "dehamburgerij"}
      [] a = "order:" -> {"order:", "order"}
      [] a = "orderid:" -> {"orderid:", "order"}
      [] OTHER -> {a}

\* Python's `needle in text` for a needle made of whole atoms followed by one
\* piece an atom starts with; the empty needle is in every text
In(needle, text) ==
    \E i \in 0..(Len(text) - Len(needle)) :
        \A k \in 1..Len(needle) :
            IF k < Len(needle)
            THEN needle[k] = text[i + k]
            ELSE needle[k] \in Prefixes(text[i + k])

\* " ".join(parts)
RECURSIVE Join(_)
Join(parts) ==
    IF parts = <<>> THEN <<>>
    ELSE IF Len(parts) = 1 THEN parts[1]
    ELSE parts[1] \o <<" ">> \o Join(Tail(parts))

----------------------------------------------------------------------------
(* config_flow.py: UUID_PATTERN, validate_order_id *)

\* UUID_PATTERN.findall(text): the pattern is anchored with ^ and $ and has no
\* MULTILINE flag, so it matches only a text that is one identifier, with at
\* most a newline after it
UUID_PATTERN_findall(text) ==
    IF /\ Len(text) \in {1, 2}
       /\ IsUuid(text[1])
       /\ Len(text) = 2 => text[2] = "\n"
    THEN <<text[1]>>
    ELSE <<>>

\* validate_order_id(order_id): UUID_PATTERN.match(order_id.strip())
validate_order_id(oid) == UUID_PATTERN_findall(Strip(oid)) # <<>>

\* [0-9a-f] under re.IGNORECASE
IsHexDigit(c) ==
    LowerChar(c) \in {"0", "1", "2", "3", "4", "5", "6", "7", "8", "9",
                      "a", "b", "c", "d", "e", "f"}

\* the repeat counts {8}, {4}, {4}, {4}, {12} of UUID_PATTERN
GroupLengths == <<8, 4, 4, 4, 12>>

\* `[0-9a-f]{n}` matched at position i: the position after the match, 0 when
\* it fails
HexRun(text, i, n) ==
    IF /\ i + n - 1 <= Len(text)
       /\ \A k \in i..(i + n - 1) : IsHexDigit(text[k])
    THEN i + n
    ELSE 0

\* the rest of UUID_PATTERN from group g on, matched at position i; `$`
\* without re.MULTILINE is the end of the text, or the newline that ends it
RECURSIVE MatchGroups(_, _, _)
MatchGroups(text, i, g) ==
    LET j == HexRun(text, i, GroupLengths[g])
    IN  IF j = 0 THEN FALSE
        ELSE IF g = Len(GroupLengths)
        THEN j = Len(text) + 1 \/ (j = Len(text) /\ text[j] = "\n")
        ELSE /\ j <= Len(text)
             /\ text[j] = "-"
             /\ MatchGroups(text, j + 1, g + 1)

\* bool(UUID_PATTERN.match(text)), character by character
UUID_PATTERN_match(text) == MatchGroups(text, 1, 1)

\* validate_order_id without its strip()
validate_order_id_chars_unstripped(oid) == UUID_PATTERN_match(oid)

\* validate_order_id(order_id), character by character
validate_order_id_chars(oid) == UUID_PATTERN_match(Strip(oid))

----------------------------------------------------------------------------
(* email_parser.py *)

\* position of the first identifier after position i; 0 when there is none
NextUuid(text, i) ==
    LET js == {j \in (i + 1)..Len(text) : IsUuid(text[j])}
    IN  IF js = {} THEN 0 ELSE CHOOSE j \in js : \A k \in js : j <= k

\* [:\s]* between a label that ends in ":" and the identifier
AllSeps(between) == \A k \in 1..Len(between) : IsSep(between[k])

\* .*? : any characters but a newline
NoNewline(between) == \A k \in 1..Len(between) : between[k] # "\n"

\* ["']?[^"']*? : an optional quote, then no quote
QuoteThenNoQuote(between) ==
    \A k \in 1..Len(between) : IsQuote(between[k]) => k = 1

\* the part of a pattern between its start and its capture group
BetweenOk(gap, between) ==
    CASE gap = "[:\\s]+" -> AllSeps(between)
      [] gap = ".*?" -> NoNewline(between)
      [] gap = "[\"']?[^\"']*?" -> QuoteThenNoQuote(between)

\* the leftmost match of a pattern `<start><gap>(<uuid>)` under re.IGNORECASE:
\* the identifier that follows the first start atom from which the pattern
\* matches.  The atoms between start and identifier hold no identifier, so the
\* one candidate of a start is the first identifier after it.
FirstMatch(text, start, gap) ==
    LET starts == {i \in 1..Len(text) :
                     /\ LowerChar(text[i]) = start
                     /\ NextUuid(text, i) # 0
                     /\ BetweenOk(gap, SubSeq(text, i + 1, NextUuid(text, i) - 1))}
    IN  IF starts = {} THEN None
        ELSE LET i == CHOOSE i \in starts : \A k \in starts : i <= k
             IN  Some(text[NextUuid(text, i)])

\* the number of patterns in ORDER_ID_PATTERNS
NumPatterns == 6

\* the pattern list without its two link patterns
PatternMatch_labels_only(p, text) ==
    CASE p = 1 -> LET m == UUID_PATTERN_findall(text)
                  IN  IF m = <<>> THEN None ELSE Some(m[1])
      [] p = 2 -> FirstMatch(text, "orderid:", "[:\\s]+")
      [] p = 3 -> FirstMatch(text, "order:", "[:\\s]+")
      [] p = 4 -> FirstMatch(text, "bestelnummer:", "[:\\s]+")
      [] OTHER -> None

\* ORDER_ID_PATTERNS[p - 1].findall(text)[0], None when findall is empty
PatternMatch(p, text) ==
    CASE p = 1 -> LET m == UUID_PATTERN_findall(text)
                  IN  IF m = <<>> THEN None ELSE Some(m[1])
      [] p = 2 -> FirstMatch(text, "orderid:", "[:\\s]+")
      [] p = 3 -> FirstMatch(text, "order:", "[:\\s]+")
      [] p = 4 -> FirstMatch(text, "bestelnummer:", "[:\\s]+")
      [] p = 5 -> FirstMatch(text, "chickencartel.nl", ".*?")
      [] p = 6 -> FirstMatch(text, "href=", "[\"']?[^\"']*?")

\* the identifier trimmed but returned in the case it was written in
Normalize_keeps_case(oid) == Strip(oid)

\* `order_id.strip().lower()`
Normalize(oid) == Lower(Strip(oid))

\* the loop of extract_order_id_from_text from pattern p on
RECURSIVE TryPatterns(_, _)
TryPatterns(p, text) ==
    IF p > NumPatterns THEN None
    ELSE LET m == PatternMatch(p, text)
         IN  IF m # None /\ validate_order_id(<<m[1]>>)
             THEN Some(Normalize(<<m[1]>>))
             ELSE TryPatterns(p + 1, text)

\* extract_order_id_from_text(text)
extract_order_id_from_text(text) ==
    IF text = <<>> THEN None ELSE TryPatterns(1, text)

\* the match of ([^"'>\s]+) at the start of text: the atoms up to a quote, a
\* space or a tag, and the "<b" of that tag
UrlRun(text) ==
    LET stops == {k \in 1..Len(text) :
                    IsQuote(text[k]) \/ IsSpace(text[k]) \/ IsTag(text[k])}
        stop == IF stops = {} THEN Len(text) + 1
                ELSE CHOOSE k \in stops : \A j \in stops : k <= j
        run == SubSeq(text, 1, stop - 1)
    IN  IF stop <= Len(text) /\ IsTag(text[stop])
        THEN [url |-> run \o <<"<b">>, rest |-> SubSeq(text, stop + 1, Len(text))]
        ELSE [url |-> run, rest |-> SubSeq(text, stop, Len(text))]

\* re.findall(r'href=["\']?([^"\'>\s]+)', html_body, re.IGNORECASE)
RECURSIVE HrefUrls(_)
HrefUrls(html) ==
    IF html = <<>> THEN <<>>
    ELSE IF LowerChar(Head(html)) # "href=" THEN HrefUrls(Tail(html))
    ELSE LET rest == Tail(html)
             unquoted == IF rest # <<>> /\ IsQuote(Head(rest))
                         THEN Tail(rest) ELSE rest
             m == UrlRun(unquoted)
         IN  IF m.url # <<>>
             THEN <<m.url>> \o HrefUrls(m.rest)
             ELSE HrefUrls(rest)

\* re.sub(r"<[^>]+>", " ", html_body)
StripTags(html) == [k \in 1..Len(html) |-> IF IsTag(html[k]) THEN " " ELSE html[k]]

\* re.sub(r"\s+", " ", text)
RECURSIVE CollapseSpaces(_)
CollapseSpaces(text) ==
    IF text = <<>> THEN <<>>
    ELSE IF IsSpace(Head(text))
    THEN <<" ">> \o CollapseSpaces(LStrip(text))
    ELSE <<Head(text)>> \o CollapseSpaces(Tail(text))

\* the HTML body with tags removed and whitespace normalized
HtmlText(html) == Strip(CollapseSpaces(StripTags(html)))

\* every value taken for truthy: the test `if value:` left out
Truthy_unguarded(opt) == TRUE

\* `if value:` for an Optional string
Truthy(opt) == opt # None /\ opt[1] # <<>>

\* is_chickencartel_email
IsChickenCartelEmail(sender) ==
    /\ Truthy(sender)
    /\ LET sender_lower == Lower(sender[1])
       IN  \/ In(<<"chickencartel">>, sender_lower)
           \/ In(<<"noreply", "@", "chickencartel">>, sender_lower)
           \/ In(<<"@", "chickencartel.nl">>, sender_lower)
           \/ In(<<"dehamburgerij.nl">>, sender_lower)

\* text_sources when the raw HTML gave no identifier
TextSources(subject, body, html_body) ==
    (IF Truthy(subject) THEN <<subject[1]>> ELSE <<>>)
    \o (IF Truthy(body) THEN <<body[1]>> ELSE <<>>)
    \o (IF Truthy(html_body)
        THEN HrefUrls(html_body[1]) \o <<HtmlText(html_body[1])>>
        ELSE <<>>)

\* the first valid match of UUID_PATTERN.findall(combined_text), normalized
AggressiveSearch(combined_text) ==
    LET uuid_matches == UUID_PATTERN_findall(combined_text)
        valid == {k \in 1..Len(uuid_matches) : validate_order_id(<<uuid_matches[k]>>)}
    IN  IF valid = {} THEN None
        ELSE LET k == CHOOSE k \in valid : \A j \in valid : k <= j
             IN  Some(Normalize(<<uuid_matches[k]>>))

\* the search of the combined text sources, then the aggressive search
SearchCombined(subject, body, html_body, sender) ==
    LET combined_text == Join(TextSources(subject, body, html_body))
        oid == extract_order_id_from_text(combined_text)
    IN  IF oid # None THEN oid
        ELSE IF IsChickenCartelEmail(sender) /\ combined_text # <<>>
        THEN AggressiveSearch(combined_text)
        ELSE None

\* the raw HTML searched after the combined text sources
extract_order_id_from_email_html_last(subject, body, html_body, sender) ==
    LET found == SearchCombined(subject, body, html_body, sender)
    IN  IF found # None \/ ~Truthy(html_body) THEN found
        ELSE extract_order_id_from_text(html_body[1])

\* extract_order_id_from_email(subject, body, html_body, sender)
extract_order_id_from_email(subject, body, html_body, sender) ==
    LET raw == IF Truthy(html_body)
               THEN extract_order_id_from_text(html_body[1])
               ELSE None
    IN  IF raw # None THEN raw
        ELSE SearchCombined(subject, body, html_body, sender)

\* The exception a call of extract_order_id_from_email raises.  What the
\* function does with an argument raises on None: sender.lower() an
\* AttributeError, re.findall(..., html_body) and " ".join(text_sources) a
\* TypeError; each use sits behind `if <argument>:`.
ExtractRaises(subject, body, html_body, sender) ==
    IF Truthy(sender) /\ sender = None THEN "AttributeError"
    ELSE IF Truthy(html_body) /\ html_body = None THEN "TypeError"
    ELSE IF \/ Truthy(subject) /\ subject = None
            \/ Truthy(body) /\ body = None
    THEN "TypeError"
    ELSE "none"

----------------------------------------------------------------------------
(* The mailbox, as the monitor sees it *)

\* the account the monitor logs in with (self.username)
Username == <<"you", "@", "gmail.com">>

VendorAddress == <<"info", "@", "dehamburgerij.nl">>

StrangerAddress == <<"spam", "@", "example.com">>

\* a link to the vendor's order page, as an HTML body
VendorLink == <<"href=", "chickencartel.nl", Uuid2Upper>>

\* the decoded parts of a message: From, Subject, the last text/plain part and
\* the last text/html part ("" when the message has none)
Messages ==
    [sender : {VendorAddress, Username, StrangerAddress},
     subject : {<<"x">>, <<"order:", Uuid1>>},
     body : {<<>>},
     html_body : {<<>>, VendorLink}]

\* exceptions of an IMAP call: aioimaplib's Abort and Error derive from
\* IMAP4.error; a timeout or a lost socket does not
ImapExceptions == {"IMAP4.error", "TimeoutError"}

\* every outcome of fetch(uid, "(RFC822)")
FetchOutcomes ==
    { [kind |-> "raise", exc |-> e] : e \in ImapExceptions }
    \cup { [kind |-> "response", status |-> "NO"] }
    \cup { [kind |-> "response", status |-> "OK", msg |-> m] : m \in Messages }

\* the message numbers of an UNSEEN search result, in every order
UidLists ==
    UNION { {l \in [1..n -> 1..MaxUid] : \A i, j \in 1..n : i # j => l[i] # l[j]}
            : n \in 0..MaxUid }

\* every outcome of search("UNSEEN")
SearchOutcomes ==
    { [status |-> "NO", uids |-> <<>>] }
    \cup { [status |-> "OK", uids |-> l] : l \in UidLists }

\* the calls of the connection phase that can raise: the first two are made
\* only when a connection is being created
ConnectionSteps(connecting) ==
    (IF connecting THEN {"connect", "login"} ELSE {}) \cup {"select", "search"}

\* the answers the vendor endpoint gives the refresh forced by the callback
CallbackHttpOutcomes ==
    { [kind |-> "response", status |-> 200, body |-> [OrderHarmonyStatus |-> Some(4)]],
      [kind |-> "response", status |-> 200, body |-> [OrderHarmonyStatus |-> Some(7)]],
      [kind |-> "response", status |-> 404],
      [kind |-> "response", status |-> 500],
      [kind |-> "failure", err |-> [cls |-> "TimeoutError", msg |-> "timeout"]] }

----------------------------------------------------------------------------
(* email_monitor.py: EmailMonitor *)

\* is_chickencartel_sender
IsChickenCartelSender(sender) ==
    LET sender_lower == Lower(sender)
    IN  \/ In(<<"chickencartel">>, sender_lower)
        \/ In(<<"dehamburgerij.nl">>, sender_lower)
        \/ In(<<"@", "chickencartel.nl">>, sender_lower)

\* is_from_self
IsFromSelf(sender, username) ==
    \/ In(Lower(username), Lower(sender))
    \/ In(Lower(sender), Lower(username))

\* has_chickencartel_subject
HasChickenCartelSubject(subject) ==
    LET subject_lower == Lower(subject)
    IN  \/ In(<<"chickencartel">>, subject_lower)
        \/ In(<<"bestelling">>, subject_lower)
        \/ In(<<"order">>, subject_lower)

\* has_chickencartel_content, over f"{subject} {body} {html_body}".lower()
HasChickenCartelContent(subject, body, html_body) ==
    LET combined_content == Lower(subject \o <<" ">> \o body \o <<" ">> \o html_body)
    IN  \/ In(<<"chickencartel">>, combined_content)
        \/ In(<<"chickencartel.nl">>, combined_content)
        \/ In(<<"dehamburgerij">>, combined_content)
        \/ In(<<"/orders/">>, combined_content)

\* the two tests a fetched message passes before the extractor is called
IsRelevant(msg, username) ==
    /\ \/ IsChickenCartelSender(msg.sender)
       \/ IsFromSelf(msg.sender, username) /\ HasChickenCartelSubject(msg.subject)
    /\ (IsFromSelf(msg.sender, username) /\ ~IsChickenCartelSender(msg.sender)) =>
           HasChickenCartelContent(msg.subject, msg.body, msg.html_body)

\* the skip test with the comparison dropped
AlreadyProcessed_never(watermark, uid) == FALSE

\* `if self._last_uid and int(uid_str) <= int(self._last_uid): continue`
AlreadyProcessed(watermark, uid) == watermark # None /\ uid <= watermark[1]

\* `if not self._imap_client:` a connection is created and logged in
NeedsConnection(cached) == ~cached

\* the assignment of the watermark left out
NewWatermark_kept(watermark, uid) == watermark

\* `self._last_uid = uid_str`
NewWatermark(watermark, uid) == Some(uid)

\* the handle left cached by the except clauses
HandleAfterError_kept(exc) == TRUE

\* self._imap_client after an exception reached the except clauses of
\* _check_emails: both clauses clear it
HandleAfterError(exc) == FALSE

\* what _check_emails raises: its two except clauses catch every exception
CheckEmailsRaises(exc) == None

\* _async_update_data: the dict returned when _check_emails returned or raised
\* (last_check, a timestamp, is left out)
UpdateData(raised) ==
    IF raised = None
    THEN [status |-> "monitoring"]
    ELSE [status |-> "error", error |-> raised[1]]

\* _process_email(uid) up to the callback: the exception it swallowed, whether
\* the extractor was called and the identifier to report
ProcessEmail(fetch, username) ==
    IF fetch.kind = "raise"
    THEN [swallowed |-> Some(fetch.exc), invoked |-> FALSE, found |-> None]
    ELSE IF fetch.status # "OK" \/ ~IsRelevant(fetch.msg, username)
    THEN [swallowed |-> None, invoked |-> FALSE, found |-> None]
    ELSE [swallowed |-> None, invoked |-> TRUE,
          found |-> extract_order_id_from_email(
                        Some(fetch.msg.subject), Some(fetch.msg.body),
                        Some(fetch.msg.html_body), Some(fetch.msg.sender))]

\* the watermark advanced without awaiting the callback
AfterProcess_no_callback(found) == "advance"

\* where _process_email goes with the extractor's answer: `if order_id:` awaits
\* the callback, then the method returns to `self._last_uid = uid_str`
AfterProcess(found) == IF found # None THEN "callback" ELSE "advance"

----------------------------------------------------------------------------
(* The state machine of the poller *)

SetSelf(self) ==
    /\ order_id' = self.order_id
    /\ polling_interval' = self.polling_interval
    /\ polling_active' = self.polling_active
    /\ update_interval' = self.update_interval
    /\ data' = self.data

PollingIntervals == {DEFAULT_POLLING_INTERVAL, AltPollingInterval}

\* no call of the extractor
NoExtraction ==
    /\ email = [subject |-> None, body |-> None, html_body |-> None, sender |-> None]
    /\ extracted = None
    /\ extract_exc = "none"

\* no call of validate_order_id
NoValidation ==
    /\ candidate = <<>>
    /\ verdict = None

\* no coordinator registered, no service called
NoService ==
    /\ pollers = <<>>
    /\ entries = <<>>
    /\ call = [op |-> "none"]

\* no config flow started
NoFlow == flow = [step |-> "none"]

\* no refresh suspended
NoneInFlight == inflight = [pending |-> <<>>, source |-> None, stopper |-> None]

\* the host's other entry points have not been used
HostIdle == NoValidation /\ NoService /\ NoFlow /\ NoneInFlight

\* the observation of a monitor step
Step(op, uid, fetch, invoked, found, called) ==
    [op |-> op, uid |-> uid, fetch |-> fetch, invoked |-> invoked,
     found |-> found, called |-> called]

\* EmailMonitor.__init__: no watermark, no connection; no cycle has run
MonitorConstructed ==
    /\ last_uid = None
    /\ imap_client = FALSE
    /\ cycle = [pc |-> "idle", uids |-> <<>>, created |-> FALSE,
                logged_in |-> FALSE, failed |-> {}, result |-> None,
                step |-> Step("init", None, None, FALSE, None, FALSE)]
    /\ processed = [u \in 1..MaxUid |-> 0]

\* the state after construction, for every identifier string and interval
Init ==
    /\ \E oid \in Strings, seconds \in PollingIntervals :
           LET self == Construct(oid, seconds)
           IN  /\ order_id = self.order_id
               /\ polling_interval = self.polling_interval
               /\ polling_active = self.polling_active
               /\ update_interval = self.update_interval
               /\ data = self.data
    /\ last = [op |-> "init", arg |-> None, forced |-> FALSE, reset |-> None,
               requested |-> None, http |-> None, ret |-> None, raised |-> "none"]
    /\ NoExtraction
    /\ MonitorConstructed
    /\ HostIdle

\* a refresh cycle: the scheduled tick, or a refresh requested by the host
Refresh ==
    /\ \E http \in HttpOutcomes :
        \E r \in {async_refresh(Self, http)} :
            /\ SetSelf(r.self)
            /\ last' = [op |-> "refresh", arg |-> None, forced |-> FALSE,
                        reset |-> None, requested |-> r.requested,
                        http |-> r.http, ret |-> r.ret, raised |-> r.raised]
    /\ UNCHANGED <<extractor_vars, monitor_vars, host_vars>>

\* update_order_id(new_order_id) with the GETs of its forced refresh answered
\* from `outcomes`: nothing when the identifier is unchanged; otherwise the
\* reset and the forced refresh (`await self.async_request_refresh()`)
CallUpdateOrderId(new_order_id, outcomes) ==
    IF OrderIdUnchanged(Self, new_order_id)
    THEN /\ UNCHANGED <<order_id, polling_interval, polling_active,
                        update_interval, data>>
         /\ last' = [op |-> "update_order_id", arg |-> Some(new_order_id),
                     forced |-> FALSE, reset |-> None, requested |-> None,
                     http |-> None, ret |-> None, raised |-> "none"]
    ELSE \E reset \in {ResetPolling(Self, new_order_id)} :
         \E http \in outcomes :
         \E r \in {async_refresh(reset, http)} :
             /\ SetSelf(r.self)
             /\ last' = [op |-> "update_order_id",
                         arg |-> Some(new_order_id), forced |-> TRUE,
                         reset |-> Some(Snapshot(reset)),
                         requested |-> r.requested, http |-> r.http,
                         ret |-> r.ret, raised |-> r.raised]

\* update_order_id(new_order_id), called by the set_order_id service
UpdateOrderId ==
    /\ \E new_order_id \in Strings : CallUpdateOrderId(new_order_id, HttpOutcomes)
    /\ UNCHANGED <<extractor_vars, monitor_vars, host_vars>>

Next == Refresh \/ UpdateOrderId

Spec == Init /\ [][Next]_vars

----------------------------------------------------------------------------
(* The extractor applied to every mail of at most MaxTextLen atoms *)

\* the atoms the subject, body and HTML body are made of
TextAtoms ==
    {Uuid1, Uuid2Upper, "order:", "href=", "\"", "<b>", "chickencartel.nl", "x"}

\* a field of n atoms; `empty` is how a field without text is passed
Fields(n, empty) ==
    IF n = 0 THEN {empty} ELSE {Some(t) : t \in [1..n -> TextAtoms]}

\* the sender argument: absent, the vendor's domain written with capitals,
\* somebody else
SenderArgs == {None, Some(<<"noreply", "@", "ChickenCartel.nl">>), Some(Username)}

\* the poller of a new config entry: update_order_id stays untouched here
PollerPending ==
    /\ LET self == Construct(<<"pending-email-detection">>, DEFAULT_POLLING_INTERVAL)
       IN  /\ order_id = self.order_id
           /\ polling_interval = self.polling_interval
           /\ polling_active = self.polling_active
           /\ update_interval = self.update_interval
           /\ data = self.data
    /\ last = [op |-> "init", arg |-> None, forced |-> FALSE, reset |-> None,
               requested |-> None, http |-> None, ret |-> None, raised |-> "none"]

\* the sender arguments tried with n atoms of text: with no text at all also
\* the empty string
Senders(n) == IF n = 0 THEN SenderArgs \cup {Some(<<>>)} ELSE SenderArgs

\* how a field without text is passed: None or "", each field on its own when
\* the mail has no text at all, all fields alike otherwise
Empties(n) ==
    IF n = 0 THEN [1..3 -> {None, Some(<<>>)}]
    ELSE {[k \in 1..3 |-> e] : e \in {None, Some(<<>>)}}

ExtractorInit ==
    /\ \E n1 \in 0..MaxTextLen :
       \E n2 \in 0..(MaxTextLen - n1) :
       \E n3 \in 0..(MaxTextLen - n1 - n2) :
       \E empty \in Empties(n1 + n2 + n3) :
       \E subject \in Fields(n1, empty[1]), body \in Fields(n2, empty[2]),
          html_body \in Fields(n3, empty[3]) :
       \E sender \in Senders(n1 + n2 + n3) :
           email = [subject |-> subject, body |-> body,
                    html_body |-> html_body, sender |-> sender]
    /\ extracted = None
    /\ extract_exc = "none"
    /\ PollerPending
    /\ MonitorConstructed
    /\ HostIdle

\* one call extract_order_id_from_email(subject, body, html_body, sender):
\* it returns, or it raises
ExtractOrderIdFromEmail ==
    /\ extracted = None
    /\ \E exc \in {ExtractRaises(email.subject, email.body, email.html_body,
                                  email.sender)} :
           /\ extract_exc' = exc
           /\ extracted' =
                  IF exc = "none"
                  THEN Some(extract_order_id_from_email(
                                email.subject, email.body, email.html_body,
                                email.sender))
                  ELSE Some(None)
    /\ UNCHANGED <<email, poller_vars, monitor_vars, host_vars>>

ExtractorNext == ExtractOrderIdFromEmail

SpecExtractor == ExtractorInit /\ [][ExtractorNext]_vars

----------------------------------------------------------------------------
(* The state machine of the monitor, with the poller its callback updates *)

MonitorInit ==
    /\ PollerPending
    /\ NoExtraction
    /\ MonitorConstructed
    /\ HostIdle

\* _check_emails up to the search result: connect and log in when no connection
\* is cached, select the folder, search UNSEEN.  One of the calls raises, or the
\* search answers; an answer without message numbers ends the cycle.
CheckEmails ==
    /\ cycle.pc = "idle"
    /\ \/ \E at \in ConnectionSteps(NeedsConnection(imap_client)),
               exc \in ImapExceptions :
            /\ imap_client' = HandleAfterError(exc)
            /\ cycle' = [pc |-> "idle", uids |-> <<>>,
                         created |-> NeedsConnection(imap_client) /\ at # "connect",
                         logged_in |-> NeedsConnection(imap_client)
                                       /\ at \notin {"connect", "login"},
                         failed |-> {[at |-> at, exc |-> exc]},
                         result |-> Some(UpdateData(CheckEmailsRaises(exc))),
                         step |-> Step("check", None, None, FALSE, None, FALSE)]
       \/ \E search \in SearchOutcomes :
            /\ imap_client' = TRUE
            /\ cycle' = [pc |-> IF search.status # "OK" \/ search.uids = <<>>
                                THEN "idle" ELSE "loop",
                         uids |-> search.uids,
                         created |-> NeedsConnection(imap_client),
                         logged_in |-> NeedsConnection(imap_client),
                         failed |-> {},
                         result |-> IF search.status # "OK" \/ search.uids = <<>>
                                    THEN Some(UpdateData(None)) ELSE None,
                         step |-> Step("check", None, None, FALSE, None, FALSE)]
    /\ UNCHANGED <<last_uid, processed, poller_vars, extractor_vars, host_vars>>

\* one round of `for uid in email_uids`: the message is skipped, or
\* _process_email fetches it, tests it and calls the extractor
FetchEmail ==
    /\ cycle.pc = "loop"
    /\ cycle.uids # <<>>
    /\ LET uid == Head(cycle.uids)
       IN  IF AlreadyProcessed(last_uid, uid)
           THEN /\ cycle' = [cycle EXCEPT
                      !.uids = Tail(cycle.uids),
                      !.step = Step("skip", Some(uid), None, FALSE, None, FALSE)]
                /\ UNCHANGED processed
           ELSE \E fetch \in FetchOutcomes :
                \E r \in {ProcessEmail(fetch, Username)} :
                    /\ cycle' = [cycle EXCEPT
                          !.pc = AfterProcess(r.found),
                          !.uids = Tail(cycle.uids),
                          !.failed = IF r.swallowed = None THEN @
                                     ELSE @ \cup {[at |-> "fetch", exc |-> r.swallowed[1]]},
                          !.step = Step("fetch", Some(uid), Some(fetch),
                                        r.invoked, r.found, FALSE)]
                    /\ processed' = [processed EXCEPT ![uid] = IF @ < 2 THEN @ + 1 ELSE @]
    /\ UNCHANGED <<last_uid, imap_client, poller_vars, extractor_vars, host_vars>>

\* `await self._on_order_id_found(order_id)`: on_order_id_found of __init__.py
\* awaits the poller's update_order_id
Callback ==
    /\ cycle.pc = "callback"
    /\ CallUpdateOrderId(cycle.step.found[1], CallbackHttpOutcomes)
    /\ cycle' = [cycle EXCEPT
           !.pc = "advance", !.step.op = "callback", !.step.called = TRUE]
    /\ UNCHANGED <<last_uid, imap_client, processed, extractor_vars, host_vars>>

\* `self._last_uid = uid_str`, after _process_email returned
AdvanceWatermark ==
    /\ cycle.pc = "advance"
    /\ last_uid' = NewWatermark(last_uid, cycle.step.uid[1])
    /\ cycle' = [cycle EXCEPT
           !.pc = "loop",
           !.step = Step("advance", cycle.step.uid, None, FALSE, None, FALSE)]
    /\ UNCHANGED <<imap_client, processed, poller_vars, extractor_vars, host_vars>>

\* the loop is over: _check_emails returns and _async_update_data returns
\* its dict
ReturnData ==
    /\ cycle.pc = "loop"
    /\ cycle.uids = <<>>
    /\ cycle' = [cycle EXCEPT
           !.pc = "idle",
           !.result = Some(UpdateData(None)),
           !.step = Step("return", None, None, FALSE, None, FALSE)]
    /\ UNCHANGED <<last_uid, imap_client, processed, poller_vars, extractor_vars, host_vars>>

MonitorNext ==
    CheckEmails \/ FetchEmail \/ Callback \/ AdvanceWatermark \/ ReturnData

SpecMonitor == MonitorInit /\ [][MonitorNext]_vars

----------------------------------------------------------------------------
(* __init__.py: the set_order_id service over the coordinators of two entries *)

\* the entry ids of the config entries that are set up
EntryIds == {1, 2}

\* the order id a new config entry carries (config_flow.py line 64)
PendingOrderId == <<"pending-email-detection">>

\* the entity id of the sensor of an entry
SensorOf(e) == <<"sensor.order_status", e>>

\* an entity of another integration, and an entity id the registry has not
ForeignEntity == <<"light.kitchen", 0>>

UnknownEntity == <<"sensor.removed", 0>>

\* entity_registry.async_get(entity_id): None, or the entity with its platform
\* and its unique_id (for a sensor of this integration `<entry_id>_order_status`)
RegistryGet(entity_id) ==
    IF entity_id = UnknownEntity THEN None
    ELSE IF entity_id = ForeignEntity
    THEN Some([platform |-> "hue", unique_id |-> <<0, "_light">>])
    ELSE Some([platform |-> "chickencartel",
               unique_id |-> <<entity_id[2], "_order_status">>])

\* the order_id values of a service call: identifiers, also in capitals and
\* with whitespace around them, and strings that are no identifier
ServiceOrderIds ==
    { <<Uuid1>>, <<Uuid2Upper>>, <<" ", Uuid2Upper, "\n">>,
      <<>>, <<"x">>, <<Uuid1, "x">> }

\* the entity_id values of a service call: absent, the empty list, lists
ServiceEntityIds ==
    { None, Some({}), Some({SensorOf(1)}), Some({SensorOf(2)}),
      Some({SensorOf(1), SensorOf(2)}), Some({ForeignEntity}),
      Some({UnknownEntity, SensorOf(2)}) }

\* the answers the vendor endpoint gives a refresh of one of the coordinators
ServiceHttpOutcomes ==
    { [kind |-> "response", status |-> 200, body |-> [OrderHarmonyStatus |-> Some(4)]],
      [kind |-> "response", status |-> 200, body |-> [OrderHarmonyStatus |-> Some(7)]],
      [kind |-> "response", status |-> 500] }

\* coordinators_to_update: with entity ids, the coordinators of the entities
\* that are sensors of this integration; without, every coordinator
CoordinatorsToUpdate(entity_ids, domain_data) ==
    IF entity_ids # None /\ entity_ids[1] # {}
    THEN {e \in DOMAIN domain_data :
             \E id \in entity_ids[1] :
                 LET entity == RegistryGet(id)
                 IN  /\ entity # None
                     /\ entity[1].platform = "chickencartel"
                     /\ entity[1].unique_id[2] = "_order_status"
                     /\ entity[1].unique_id[1] = e}
    ELSE DOMAIN domain_data

\* the identifier passed on as the caller wrote it
ServiceOrderId_as_given(oid) == oid

\* `order_id = order_id.strip().lower()`
ServiceOrderId(oid) == Lower(Strip(oid))

\* `await coordinator.update_order_id(order_id)`: the coordinator afterwards
UpdatedCoordinator(self, oid, http) ==
    IF OrderIdUnchanged(self, oid) THEN self
    ELSE async_refresh(ResetPolling(self, oid), http).self

\* async_setup_entry for each entry: the coordinator is built from the entry's
\* data, which holds the pending marker or an identifier a callback or a
\* service call stored
ServiceInit ==
    /\ \E ids \in [EntryIds -> {PendingOrderId, <<Uuid1>>, <<Uuid2>>}] :
           /\ entries = [e \in EntryIds |->
                            [order_id |-> ids[e],
                             polling_interval |-> DEFAULT_POLLING_INTERVAL]]
           /\ pollers = [e \in EntryIds |->
                            Construct(ids[e], DEFAULT_POLLING_INTERVAL)]
    /\ call = [op |-> "setup", order_id |-> <<>>, entity_ids |-> None]
    /\ PollerPending
    /\ NoExtraction
    /\ MonitorConstructed
    /\ NoValidation
    /\ NoFlow
    /\ NoneInFlight

\* async_handle_set_order_id(call); async_update_entry stores
\* {**entry.data, CONF_ORDER_ID: order_id}
HandleSetOrderId ==
    /\ \E oid \in ServiceOrderIds, entity_ids \in ServiceEntityIds,
          https \in [EntryIds -> ServiceHttpOutcomes] :
           /\ call' = [op |-> "set_order_id", order_id |-> oid,
                       entity_ids |-> entity_ids]
           /\ IF ~validate_order_id(oid)
              THEN UNCHANGED <<pollers, entries>>
              ELSE \E targets \in {CoordinatorsToUpdate(entity_ids, pollers)} :
                   \E new \in {ServiceOrderId(oid)} :
                       /\ pollers' = [e \in EntryIds |->
                              IF e \in targets
                              THEN UpdatedCoordinator(pollers[e], new, https[e])
                              ELSE pollers[e]]
                       /\ entries' = [e \in EntryIds |->
                              IF e \in targets
                              THEN [entries[e] EXCEPT !.order_id = new]
                              ELSE entries[e]]
    /\ UNCHANGED <<poller_vars, extractor_vars, monitor_vars, validator_vars,
                   flow, inflight>>

\* a scheduled refresh of the coordinator of one entry
RefreshCoordinator ==
    /\ \E e \in EntryIds, http \in ServiceHttpOutcomes :
           pollers' = [pollers EXCEPT ![e] = async_refresh(@, http).self]
    /\ call' = [op |-> "refresh", order_id |-> <<>>, entity_ids |-> None]
    /\ UNCHANGED <<entries, poller_vars, extractor_vars, monitor_vars,
                   validator_vars, flow, inflight>>

ServiceNext == HandleSetOrderId \/ RefreshCoordinator

SpecService == ServiceInit /\ [][ServiceNext]_vars

----------------------------------------------------------------------------
(* config_flow.py: ChickenCartelConfigFlow *)

\* the user_input of the user step: None (the form is opened), or an order id
\* with or without a polling interval
UserInputs ==
    {None}
    \cup {Some([order_id |-> oid, polling_interval |-> seconds]) :
             oid \in ServiceOrderIds,
             seconds \in {None, Some(DEFAULT_POLLING_INTERVAL), Some(AltPollingInterval)}}

\* the user_input of the email step; a text field of the form is empty,
\* blank or filled in
EmailInputs ==
    LET texts == {<<>>, <<" ">>, <<"x">>}
    IN  {None}
        \cup {Some([server |-> a, username |-> b, password |-> c]) :
                 a \in texts, b \in texts, c \in texts}

\* how the connection test ends: it succeeds, or one of its calls raises
ConnectionTests ==
    { [raised |-> "none", msg |-> ""],
      [raised |-> "TimeoutError", msg |-> ""],
      [raised |-> "IMAP4.error", msg |-> "authentication failed"],
      [raised |-> "IMAP4.error", msg |-> "connection refused"],
      [raised |-> "IMAP4.error", msg |-> "bye"],
      [raised |-> "Exception", msg |-> "timed out"],
      [raised |-> "Exception", msg |-> "connection refused"],
      [raised |-> "Exception", msg |-> "ssl"],
      [raised |-> "Exception", msg |-> "reset" ] }

\* a dict with one key
Dict1(key, value) == [k \in {key} |-> value]

\* async_show_form(step_id="email", errors=errors)
ShowEmailForm(errors) == [type |-> "form", step_id |-> "email", errors |-> errors]

\* the errors of the email step; {} when the entry can be created
EmailErrors(input, test) ==
    IF Strip(input.server) = <<>> THEN Dict1("email_server", "email_server_required")
    ELSE IF Strip(input.username) = <<>>
    THEN Dict1("email_username", "email_username_required")
    ELSE IF Strip(input.password) = <<>>
    THEN Dict1("email_password", "email_password_required")
    ELSE IF test.raised = "none" THEN EmptyDict
    ELSE IF test.raised = "TimeoutError"
    THEN Dict1("base", "email_connection_timeout")
    ELSE IF test.msg = "authentication failed"
    THEN Dict1("base", IF test.raised = "IMAP4.error"
                       THEN "email_authentication_failed"
                       ELSE "email_connection_failed")
    ELSE IF test.msg = "connection refused"
    THEN Dict1("base", "email_connection_refused")
    ELSE IF test.raised = "Exception" /\ test.msg = "timed out"
    THEN Dict1("base", "email_connection_timeout")
    ELSE IF test.raised = "Exception" /\ test.msg = "ssl"
    THEN Dict1("base", "email_ssl_error")
    ELSE Dict1("base", "email_connection_failed")

\* async_step_email(user_input): the form, an abort, or the entry made of
\* _email_data and the email settings
StepEmail(email_data, user_input, test, configured) ==
    IF user_input = None THEN ShowEmailForm(EmptyDict)
    ELSE IF EmailErrors(user_input[1], test) # EmptyDict
    THEN ShowEmailForm(EmailErrors(user_input[1], test))
    ELSE IF configured THEN [type |-> "abort", reason |-> "already_configured"]
    ELSE [type |-> "create_entry",
          data |-> [order_id |-> email_data.order_id,
                    polling_interval |-> email_data.polling_interval,
                    email_enabled |-> TRUE,
                    email_username |-> Strip(user_input[1].username)]]

\* the _email_data async_step_user stores, whatever its user_input
UserStepData(user_input) ==
    [polling_interval |-> DEFAULT_POLLING_INTERVAL, order_id |-> PendingOrderId]

FlowInit ==
    /\ flow = [step |-> "init", user_input |-> None, email_input |-> None,
               email_data |-> None, result |-> [type |-> "none"]]
    /\ PollerPending
    /\ NoExtraction
    /\ MonitorConstructed
    /\ NoValidation
    /\ NoService
    /\ NoneInFlight

\* async_step_user(user_input): stores _email_data and returns what
\* async_step_email() returns
AsyncStepUser ==
    /\ \E user_input \in UserInputs :
           flow' = [step |-> "user", user_input |-> user_input,
                    email_input |-> None,
                    email_data |-> Some(UserStepData(user_input)),
                    result |-> StepEmail(UserStepData(user_input), None,
                                         [raised |-> "none", msg |-> ""], FALSE)]
    /\ UNCHANGED <<poller_vars, extractor_vars, monitor_vars, validator_vars,
                   service_vars, inflight>>

\* async_step_email(user_input), the email form submitted
AsyncStepEmail ==
    /\ flow.email_data # None
    /\ flow.result.type = "form"
    /\ \E user_input \in EmailInputs, test \in ConnectionTests,
          configured \in BOOLEAN :
           flow' = [flow EXCEPT
                      !.step = "email",
                      !.email_input = user_input,
                      !.result = StepEmail(flow.email_data[1], user_input,
                                           test, configured)]
    /\ UNCHANGED <<poller_vars, extractor_vars, monitor_vars, validator_vars,
                   service_vars, inflight>>

FlowNext == AsyncStepUser \/ AsyncStepEmail

SpecFlow == FlowInit /\ [][FlowNext]_vars

----------------------------------------------------------------------------
(* The poller with its refreshes suspended on their GET *)

\* the identifiers the poller is given
AsyncOrderIds == {PendingOrderId, <<Uuid1>>, <<Uuid2>>}

\* inflight.pending: the identifier each suspended refresh put in its URL;
\* inflight.source: the identifier requested by the refresh whose result is
\* cached; inflight.stopper: the identifier requested by the refresh that
\* stopped polling

AsyncInit ==
    /\ \E oid \in AsyncOrderIds :
           LET self == Construct(oid, DEFAULT_POLLING_INTERVAL)
           IN  /\ order_id = self.order_id
               /\ polling_interval = self.polling_interval
               /\ polling_active = self.polling_active
               /\ update_interval = self.update_interval
               /\ data = self.data
    /\ last = [op |-> "init", arg |-> None, forced |-> FALSE, reset |-> None,
               requested |-> None, http |-> None, ret |-> None, raised |-> "none"]
    /\ inflight = [pending |-> <<>>, source |-> None, stopper |-> None]
    /\ NoExtraction
    /\ MonitorConstructed
    /\ NoValidation
    /\ NoService
    /\ NoFlow

\* _async_update_data() up to `session.get(url)`: a refresh (the scheduled
\* tick, a request of the host) that does not return the cached data builds
\* its URL from self.order_id and waits for the answer
BeginRefresh ==
    /\ Len(inflight.pending) < MaxPending
    /\ ~ReturnsCached(Self)
    /\ inflight' = [inflight EXCEPT !.pending = Append(@, order_id)]
    /\ UNCHANGED <<poller_vars, extractor_vars, monitor_vars, validator_vars,
                   service_vars, flow>>

\* a suspended refresh resumes with the answer of its GET: the rest of
\* _async_update_data() runs on the object as it is now, and the base class
\* stores what it returns in self.data
CompleteRefresh ==
    /\ \E i \in 1..Len(inflight.pending), http \in CallbackHttpOutcomes :
        \E r \in {AfterGet(Self, http)} :
            /\ SetSelf(IF r.raised = "none"
                       THEN [r.self EXCEPT !.data = r.ret]
                       ELSE r.self)
            /\ inflight' =
                   [pending |-> SubSeq(inflight.pending, 1, i - 1)
                                \o SubSeq(inflight.pending, i + 1,
                                          Len(inflight.pending)),
                    source |-> IF r.raised = "none"
                               THEN Some(inflight.pending[i])
                               ELSE inflight.source,
                    stopper |-> IF polling_active /\ ~r.self.polling_active
                                THEN Some(inflight.pending[i])
                                ELSE inflight.stopper]
    /\ UNCHANGED <<last, extractor_vars, monitor_vars, validator_vars,
                   service_vars, flow>>

\* update_order_id(new_order_id) with a different identifier, up to the GET of
\* its forced refresh
UpdateOrderIdSuspends ==
    /\ Len(inflight.pending) < MaxPending
    /\ \E new_order_id \in AsyncOrderIds :
           /\ ~OrderIdUnchanged(Self, new_order_id)
           /\ \E reset \in {ResetPolling(Self, new_order_id)} :
                  /\ SetSelf(reset)
                  /\ inflight' = [pending |-> Append(inflight.pending, reset.order_id),
                                  source |-> None,
                                  stopper |-> None]
    /\ UNCHANGED <<last, extractor_vars, monitor_vars, validator_vars,
                   service_vars, flow>>

AsyncNext == BeginRefresh \/ CompleteRefresh \/ UpdateOrderIdSuspends

SpecAsync == AsyncInit /\ [][AsyncNext]_vars

----------------------------------------------------------------------------
(* validate_order_id applied to identifiers and near-identifiers *)

\* the hex digit an identifier is filled with
FillChars == {"0", "a", "F"}

\* the characters an identifier is damaged with: hex digits, the letters next
\* to the hex range, the hyphen, whitespace
EditChars == {"0", "f", "F", "g", "G", "-", " ", "\n"}

\* n times the character c
Run(c, n) == [k \in 1..n |-> c]

\* the groups from g on, filled with c and joined by hyphens
RECURSIVE Hyphenated(_, _)
Hyphenated(c, g) ==
    IF g = Len(GroupLengths) THEN Run(c, GroupLengths[g])
    ELSE Run(c, GroupLengths[g]) \o <<"-">> \o Hyphenated(c, g + 1)

\* an identifier; an identifier with one character removed, inserted or
\* replaced; the beginnings of an identifier (the empty string among them);
\* an identifier without hyphens
Bodies(c) ==
    LET id == Hyphenated(c, 1)
    IN  {id}
        \cup {SubSeq(id, 1, p - 1) \o SubSeq(id, p + 1, Len(id)) : p \in 1..Len(id)}
        \cup {SubSeq(id, 1, p) \o <<e>> \o SubSeq(id, p + 1, Len(id)) :
                  p \in 0..Len(id), e \in EditChars}
        \cup {[id EXCEPT ![p] = e] : p \in 1..Len(id), e \in EditChars}
        \cup {SubSeq(id, 1, n) : n \in 0..(Len(id) - 1)}
        \cup {SelectSeq(id, LAMBDA ch : ch # "-")}

\* whitespace around the candidate
Pads == UNION {[1..n -> {" ", "\n"}] : n \in 0..MaxPad}

Candidates ==
    {l \o b \o r : l \in Pads, r \in Pads, b \in UNION {Bodies(c) : c \in FillChars}}

ValidatorInit ==
    /\ candidate \in Candidates
    /\ verdict = None
    /\ PollerPending
    /\ NoExtraction
    /\ MonitorConstructed
    /\ NoService
    /\ NoFlow
    /\ NoneInFlight

\* one call validate_order_id(order_id)
ValidateOrderId ==
    /\ verdict = None
    /\ verdict' = Some(validate_order_id_chars(candidate))
    /\ UNCHANGED <<candidate, poller_vars, extractor_vars, monitor_vars,
                   service_vars, flow, inflight>>

ValidatorNext == ValidateOrderId

SpecValidator == ValidatorInit /\ [][ValidatorNext]_vars

----------------------------------------------------------------------------
(* Properties of the Order Status Poller *)

TerminalLabels == {"completed", "cancelled", "failed"}

NonTerminalLabels ==
    {"received", "pos", "accepted", "preparing", "waiting_for_driver",
     "en_route", "unknown"}

\* the trimmed, lowercased form of an identifier string
Normalized(s) == Lower(Strip(s))

\* the last operation ran a refresh cycle (scheduled, requested or forced)
RanRefresh(l) == l.op = "refresh" \/ (l.op = "update_order_id" /\ l.forced)

\* polling state and interval as the refresh cycle of this step found them: the
\* state before the step, or what update_order_id reset them to
PollingAtRefresh(l) ==
    IF l.op = "update_order_id"
    THEN [polling_active |-> l.reset[1].polling_active,
          update_interval |-> l.reset[1].update_interval]
    ELSE [polling_active |-> polling_active, update_interval |-> update_interval]

GotStatus(l, statuses) ==
    /\ RanRefresh(l)
    /\ l.http # None
    /\ l.http[1].kind = "response"
    /\ l.http[1].status \in statuses

GotFailure(l) ==
    /\ RanRefresh(l)
    /\ l.http # None
    /\ l.http[1].kind = "failure"

\* C1: a refresh that receives HTTP 200 and maps the code to completed,
\* cancelled or failed leaves is_polling_active false and update_interval None;
\* one that maps it to a non-terminal label leaves polling active and the
\* interval as the refresh found it.
C1_TerminalStopsPolling ==
    [][ GotStatus(last', {200}) =>
          /\ last'.ret # None
          /\ last'.ret[1].status \in TerminalLabels \cup NonTerminalLabels
          /\ last'.ret[1].status \in TerminalLabels =>
                 ~polling_active' /\ update_interval' = None
          /\ last'.ret[1].status \in NonTerminalLabels =>
                 /\ PollingAtRefresh(last').polling_active
                 /\ polling_active'
                 /\ update_interval' = PollingAtRefresh(last').update_interval
      ]_vars

C1_Witness ==
    /\ last.op = "refresh"
    /\ GotStatus(last, {200})
    /\ last.ret[1].status = "cancelled"
    /\ ~polling_active
    /\ update_interval = None

\* C2: polling goes from Active to Stopped only in a refresh that computes a
\* terminal status, and from Stopped to Active only in an update_order_id call
\* whose identifier differs from the tracked one.
C2_TransitionsOnly ==
    [][ /\ (polling_active /\ ~polling_active') =>
              /\ GotStatus(last', {200})
              /\ last'.ret[1].status \in TerminalLabels
        /\ (~polling_active /\ polling_active') =>
              /\ last'.op = "update_order_id"
              /\ last'.arg[1] # order_id
      ]_vars

\* C3: a refresh of a Stopped poller that holds cached data returns the cached
\* data, issues no request and leaves id, polling state, interval and data alone.
C3_StoppedReturnsCached ==
    [][ (last'.op = "refresh" /\ ~polling_active /\ data # None) =>
          /\ last'.ret = data
          /\ last'.raised = "none"
          /\ last'.requested = None
          /\ last'.http = None
          /\ UNCHANGED <<order_id, polling_active, update_interval, data>>
      ]_vars

C3_Witness ==
    /\ last.op = "refresh"
    /\ ~polling_active
    /\ data # None
    /\ last.ret = data
    /\ last.requested = None

\* C4: update_order_id(new_id) changes nothing and forces no refresh whenever
\* the trimmed, lowercased new_id equals the trimmed, lowercased tracked id.
C4_SameIdIsNoOp ==
    [][ (last'.op = "update_order_id"
         /\ Normalized(last'.arg[1]) = Normalized(order_id)) =>
          /\ ~last'.forced
          /\ last'.requested = None
          /\ UNCHANGED <<order_id, polling_active, update_interval, data>>
      ]_vars

\* C5: update_order_id(new_id) with a different identifier stores the trimmed,
\* lowercased new_id, sets polling Active with the configured interval, clears
\* the cached data and forces a refresh that requests the new identifier; the
\* data afterwards is what that refresh returned, or nothing.
C5_NewIdRestarts ==
    [][ (last'.op = "update_order_id"
         /\ Normalized(last'.arg[1]) # Normalized(order_id)) =>
          /\ order_id' = Normalized(last'.arg[1])
          /\ last'.forced
          /\ last'.reset =
                 Some([polling_active |-> TRUE,
                       update_interval |-> Some(polling_interval),
                       data |-> None])
          /\ polling_interval' = polling_interval
          /\ last'.requested = Some(order_id')
          /\ last'.http # None
          /\ data' = last'.ret
          /\ data' # None => data'[1].order_id = order_id'
      ]_vars

C5_Witness ==
    /\ last.op = "update_order_id"
    /\ last.forced
    /\ last.arg = Some(<<" ", "A">>)
    /\ order_id = <<"a">>
    /\ last.requested = Some(<<"a">>)
    /\ data # None
    /\ data[1].status = "preparing"
    /\ polling_active

\* C6: a refresh that receives HTTP 404 returns status "unknown",
\* order_harmony_status None, error "Order not found" and the tracked order id,
\* raises nothing and leaves polling state and interval as it found them.
C6_NotFoundIsDegraded ==
    [][ GotStatus(last', {404}) =>
          /\ last'.raised = "none"
          /\ last'.ret =
                 Some([order_id |-> order_id', order_harmony_status |-> None,
                       status |-> "unknown", error |-> "Order not found"])
          /\ polling_active' = PollingAtRefresh(last').polling_active
          /\ update_interval' = PollingAtRefresh(last').update_interval
      ]_vars

C6_Witness ==
    /\ last.op = "refresh"
    /\ GotStatus(last, {404})
    /\ data # None
    /\ data[1].error = "Order not found"
    /\ polling_active

\* C7: a refresh that receives a status other than 200 and 404 raises
\* UpdateFailed, returns nothing and changes no poller state: id, polling state,
\* interval and cached data are as the refresh found them.
C7_OtherStatusRaises ==
    [][ GotStatus(last', HttpStatuses \ {200, 404}) =>
          /\ last'.raised = "UpdateFailed"
          /\ last'.ret = None
          /\ polling_interval' = polling_interval
          /\ IF last'.op = "refresh"
             THEN UNCHANGED <<order_id, polling_active, update_interval, data>>
             ELSE /\ order_id' = last'.requested[1]
                  /\ polling_active' = last'.reset[1].polling_active
                  /\ update_interval' = last'.reset[1].update_interval
                  /\ data' = last'.reset[1].data
      ]_vars

C7_Witness ==
    /\ last.op = "refresh"
    /\ GotStatus(last, {500})
    /\ last.raised = "UpdateFailed"
    /\ data # None
    /\ polling_active

\* C8: whatever network-level failure the request ends in (connection refused,
\* the 10 s timeout, DNS failure), the refresh raises nothing and returns status
\* "unknown", order_harmony_status None and an error string, and polling state
\* is as the refresh found it.
C8_NetworkFailureIsDegraded ==
    [][ GotFailure(last') =>
          /\ last'.raised = "none"
          /\ last'.ret # None
          /\ last'.ret[1].status = "unknown"
          /\ last'.ret[1].order_harmony_status = None
          /\ "error" \in DOMAIN last'.ret[1]
          /\ polling_active' = PollingAtRefresh(last').polling_active
      ]_vars

\* the label the table of the interface section gives a vendor code
TableLabel(code) ==
    CASE code = Some(-1) -> "failed"
      [] code = Some(0) -> "cancelled"
      [] code = Some(1) -> "received"
      [] code = Some(2) -> "pos"
      [] code = Some(3) -> "accepted"
      [] code = Some(4) -> "preparing"
      [] code = Some(5) -> "waiting_for_driver"
      [] code = Some(6) -> "en_route"
      [] code = Some(7) -> "completed"
      [] OTHER -> "unknown"

\* C9: the status a 200 refresh reports is the table's label of the vendor code
\* (unknown for every other integer and for an absent code), and the result
\* carries the raw code unchanged.
C9_StatusIsTableOfCode ==
    GotStatus(last, {200}) =>
        /\ last.ret # None
        /\ last.ret[1].order_harmony_status = last.http[1].body.OrderHarmonyStatus
        /\ last.ret[1].status = TableLabel(last.http[1].body.OrderHarmonyStatus)
        /\ last.ret[1].raw_data = last.http[1].body

C9_Witness ==
    /\ GotStatus(last, {200})
    /\ last.ret[1].order_harmony_status = Some(5)
    /\ last.ret[1].status = "waiting_for_driver"

\* C10: in every reachable state the tracked order identifier equals its own
\* trimmed, lowercased value.
C10_OrderIdNormalized == order_id = Normalized(order_id)

----------------------------------------------------------------------------
(* Properties of the Email Monitor *)

\* C11: the watermark never decreases and, once set, is never empty again,
\* through any check cycles, any order of the message numbers in the UNSEEN
\* search result and any failures.
C11_WatermarkGrowsOnly ==
    [][ last_uid # None =>
          /\ last_uid' # None
          /\ last_uid'[1] >= last_uid[1]
      ]_vars

C11_Witness ==
    /\ last_uid = Some(2)
    /\ cycle.step.op = "skip"
    /\ cycle.step.uid = Some(1)
    /\ processed[1] = 0

\* C12: a message whose number is at or below the watermark is neither fetched,
\* nor passed to the extractor, nor reported to the callback; every message
\* number is processed at most once.
C12_ProcessedAtMostOnce ==
    /\ [][ \A u \in 1..MaxUid : processed'[u] <= 1 ]_vars
    /\ [][ (cycle'.step.op = "fetch" /\ cycle'.step # cycle.step) =>
             (last_uid = None \/ cycle'.step.uid[1] > last_uid[1])
         ]_vars
    /\ [][ (cycle'.step.called /\ ~cycle.step.called) =>
             (last_uid = None \/ cycle'.step.uid[1] > last_uid[1])
         ]_vars

C12_Witness ==
    /\ last_uid = Some(1)
    /\ processed[1] = 1
    /\ cycle.step.op = "skip"
    /\ cycle.step.uid = Some(1)

\* the sender, subject and content tests as the heuristic is described
VendorSender(msg) == IsChickenCartelSender(msg.sender)

SelfSent(msg) == IsFromSelf(msg.sender, Username)

KeywordsInSubject(msg) == HasChickenCartelSubject(msg.subject)

KeywordsInContent(msg) ==
    HasChickenCartelContent(msg.subject, msg.body, msg.html_body)

\* the step fetched a message and got it
Fetched(c) ==
    /\ c.step.op = "fetch"
    /\ c.step.fetch[1].kind = "response"
    /\ c.step.fetch[1].status = "OK"

\* C13: for a fetched message newer than the watermark the extractor is called
\* exactly when the sender is the vendor, or the message is self-sent and vendor
\* keywords occur in its subject or in its combined subject/body/HTML content.
C13_RelevanceHeuristic ==
    [][ (Fetched(cycle') /\ cycle'.step # cycle.step) =>
          LET msg == cycle'.step.fetch[1].msg
          IN  cycle'.step.invoked <=>
                  \/ VendorSender(msg)
                  \/ SelfSent(msg) /\ (KeywordsInSubject(msg) \/ KeywordsInContent(msg))
      ]_vars

\* the step ran the connection phase of a cycle
Checked(c) == c.step.op = "check"

ImapErrorIn(c) ==
    \/ Checked(c) /\ c.failed # {}
    \/ c.step.op = "fetch" /\ c.step.fetch[1].kind = "raise"

\* C15: whenever an IMAP call of a check cycle raises, the fetch of a single
\* message included, the cached handle is cleared.
C15_ErrorClearsHandle ==
    [][ (ImapErrorIn(cycle') /\ cycle'.step # cycle.step) => ~imap_client' ]_vars

\* a call of the connection phase raised in this cycle
ConnectionErrorIn(c) ==
    \E f \in c.failed : f.at \in {"connect", "login", "select", "search"}

\* C16: a cycle that met a connection error returns status "error" with an
\* error string and raises nothing; status "monitoring" is returned only by a
\* cycle that met none.
C16_ErrorIsReported ==
    [][ (cycle'.step.op \in {"check", "return"} /\ cycle'.pc = "idle") =>
          /\ cycle'.result # None
          /\ IF ConnectionErrorIn(cycle')
             THEN /\ cycle'.result[1].status = "error"
                  /\ "error" \in DOMAIN cycle'.result[1]
             ELSE cycle'.result[1].status = "monitoring"
      ]_vars

\* the monitor holds an extracted identifier it has not reported yet
Unreported(c) == c.step.found # None /\ ~c.step.called

\* C17: an extracted identifier is reported before anything else happens: the
\* next step is the callback with that identifier, which runs the poller's
\* update_order_id and its forced refresh to the end while the watermark
\* stays; the watermark advances to a message, the next message is taken and
\* the cycle returns only when no identifier is unreported.
C17_CallbackBeforeWatermark ==
    [][ /\ Unreported(cycle) =>
              /\ cycle'.step.called
              /\ cycle'.step.found = cycle.step.found
              /\ cycle'.step.uid = cycle.step.uid
              /\ last'.op = "update_order_id"
              /\ last'.arg = cycle.step.found
              /\ order_id' = cycle.step.found[1]
              /\ last'.forced => (last'.http # None /\ data' = last'.ret)
              /\ last_uid' = last_uid
        /\ last_uid' # last_uid =>
              /\ last_uid' = cycle.step.uid
              /\ ~Unreported(cycle)
        /\ cycle'.step.op \in {"fetch", "skip", "return"} => ~Unreported(cycle)
      ]_vars

C17_Witness ==
    /\ cycle.step.op = "advance"
    /\ last_uid = Some(2)
    /\ order_id = <<Uuid2>>
    /\ last.op = "update_order_id"
    /\ last.arg = Some(<<Uuid2>>)
    /\ last.forced
    /\ data # None
    /\ data[1].status = "preparing"

\* C28: between operations, a Stopped poller has cached data whose status is
\* completed, cancelled or failed and whose order_id is the tracked identifier,
\* and no refresh interval; an Active poller has the configured polling
\* interval as its refresh interval.
C28_StoppedHasTerminalData ==
    /\ ~polling_active =>
           /\ data # None
           /\ data[1].status \in TerminalLabels
           /\ data[1].order_id = order_id
           /\ update_interval = None
    /\ polling_active => update_interval = Some(polling_interval)

C28_Witness ==
    /\ ~polling_active
    /\ last.op = "update_order_id"
    /\ last.forced
    /\ data # None
    /\ data[1].status = "cancelled"
    /\ data[1].order_id = order_id
    /\ update_interval = None

----------------------------------------------------------------------------
(* Properties of the Email Monitor, continued *)

\* the fetch of the message the cycle is at answered OK and raised nothing
FetchSucceeded(c) ==
    /\ c.step.fetch # None
    /\ c.step.fetch[1].kind = "response"
    /\ c.step.fetch[1].status = "OK"

\* C29: the watermark advances only to a message whose fetch and processing
\* finished without error; after a fetch that answered non-OK or raised, the
\* watermark is not set to that message.
C29_FailureKeepsWatermark ==
    [][ last_uid' # last_uid => FetchSucceeded(cycle) ]_vars

\* C27: whatever the interleaving of a refresh suspended on its GET with
\* update_order_id(different id), the cached result never carries the tracked
\* identifier with a status fetched for another order, and once no refresh is
\* pending a Stopped poller was stopped by a terminal status fetched for the
\* order it tracks.
C27_NoStaleResultAfterUpdate ==
    /\ (data # None /\ data[1].order_id = order_id) =>
           inflight.source = Some(order_id)
    /\ (inflight.pending = <<>> /\ ~polling_active) =>
           inflight.stopper = Some(order_id)

----------------------------------------------------------------------------
(* Properties of the sensor *)

\* availability and value follow the cached data
AvailabilityAndValue ==
    /\ available(Self) <=> data # None
    /\ native_value(Self) = IF data = None THEN None ELSE Some(data[1].status)

\* C25 as stated: the sensor is available exactly when the poller holds cached
\* data, its value is the cached status (None without data), and its
\* polling_active attribute equals the poller's is_polling_active.
C25_AttributeAlwaysThere ==
    /\ AvailabilityAndValue
    /\ "polling_active" \in DOMAIN extra_state_attributes(Self)
    /\ extra_state_attributes(Self)["polling_active"] = polling_active

\* C25, amended: the sensor is available exactly when the poller holds cached
\* data, degraded results included; its value is the cached status (None
\* without data); while data is cached its polling_active attribute equals the
\* poller's is_polling_active, and without data it has no attributes.
C25_SensorMirrorsPoller ==
    /\ AvailabilityAndValue
    /\ data # None =>
           /\ "polling_active" \in DOMAIN extra_state_attributes(Self)
           /\ extra_state_attributes(Self)["polling_active"] = polling_active
    /\ data = None => DOMAIN extra_state_attributes(Self) = {}

C25_Witness ==
    /\ data # None
    /\ "error" \in DOMAIN data[1]
    /\ available(Self)
    /\ native_value(Self) = Some("unknown")
    /\ extra_state_attributes(Self)["error"] = "Order not found"
    /\ extra_state_attributes(Self)["polling_active"]

----------------------------------------------------------------------------
(* Properties of the Order ID Extractor *)

\* the extractor has been called on the mail
Called == extracted # None

\* the concatenated text of the mail: subject, body, href URLs, stripped HTML
ConcatenatedText == Join(TextSources(email.subject, email.body, email.html_body))

\* the identifiers of a text, in their order
RECURSIVE UuidsIn(_)
UuidsIn(text) ==
    IF text = <<>> THEN <<>>
    ELSE (IF IsUuid(Head(text)) THEN <<Head(text)>> ELSE <<>>) \o UuidsIn(Tail(text))

\* the first identifier of a text in canonical form; None when it has none
FirstUuid(text) ==
    IF UuidsIn(text) = <<>> THEN None ELSE Some(Lower(<<UuidsIn(text)[1]>>))

\* the ordered pattern list matches nothing: not in the raw HTML, not in the
\* concatenated text
NothingMatched ==
    /\ Truthy(email.html_body) => extract_order_id_from_text(email.html_body[1]) = None
    /\ extract_order_id_from_text(ConcatenatedText) = None

\* C18: when the pattern list matches nothing and the sender is the vendor, the
\* extractor returns the first identifier anywhere in the concatenated text,
\* also one surrounded by other text and without a label; it returns nothing
\* only when the text holds no identifier.
C18_AggressiveSearchFindsAny ==
    (Called /\ NothingMatched /\ IsChickenCartelEmail(email.sender)) =>
        extracted[1] = FirstUuid(ConcatenatedText)

\* C19: when the text holds several identifiers, the result is the first
\* identifier of the text, also when a later one follows a label.
C19_FirstUuidWins ==
    (Called /\ ~Truthy(email.html_body) /\ Len(UuidsIn(ConcatenatedText)) >= 2) =>
        extracted[1] = FirstUuid(ConcatenatedText)

\* C20: when the HTML body is present and the search of the raw HTML gives an
\* identifier, that identifier is the result, whatever the subject and the
\* body hold.
C20_RawHtmlFirst ==
    (Called /\ Truthy(email.html_body)
     /\ extract_order_id_from_text(email.html_body[1]) # None) =>
        extracted[1] = extract_order_id_from_text(email.html_body[1])

C20_Witness ==
    /\ Called
    /\ email.subject = Some(<<"order:", Uuid1>>)
    /\ email.html_body = Some(<<Uuid2Upper>>)
    /\ extracted[1] = Some(<<Uuid2>>)

\* C21: every identifier the extractor returns, on every return path, passes
\* validate_order_id and equals its own lowercased, trimmed form.
C21_ResultIsCanonical ==
    (Called /\ extracted[1] # None) =>
        /\ validate_order_id(extracted[1][1])
        /\ extracted[1][1] = Lower(Strip(extracted[1][1]))

C21_Witness ==
    /\ Called
    /\ email.subject = Some(<<"order:", Uuid2Upper>>)
    /\ ~Truthy(email.html_body)
    /\ extracted[1] = Some(<<Uuid2>>)

\* the identifiers of the vendor links of an HTML text: href=, an optional
\* quote, the vendor's host with words before it (scheme, "www."), words after
\* it (the path), the identifier
LinkIds(html) ==
    {html[j] : j \in {j \in 1..Len(html) :
        /\ IsUuid(html[j])
        /\ \E i \in 1..(j - 1), h \in 1..(j - 1) :
               /\ i < h
               /\ html[i] = "href="
               /\ html[h] = "chickencartel.nl"
               /\ \A k \in (i + 1)..(h - 1) :
                      html[k] = "x" \/ (k = i + 1 /\ IsQuote(html[k]))
               /\ \A k \in (h + 1)..(j - 1) : html[k] = "x"}}

\* the one identifier of the HTML body sits in a vendor link
OnlyIdIsLinked(html, id) ==
    /\ id \in LinkIds(html)
    /\ \A k \in 1..Len(html) : IsUuid(html[k]) => html[k] = id

\* C22: an identifier in a vendor URL inside an href attribute of the HTML body
\* is the result, in lowercase, whoever the sender is (the vendor, the user,
\* nobody).
C22_HrefIdExtracted ==
    (Called /\ Truthy(email.html_body)) =>
        \A id \in UuidAtoms :
            OnlyIdIsLinked(email.html_body[1], id) =>
                extracted[1] = Some(Lower(<<id>>))

C22_Witness ==
    /\ Called
    /\ email.html_body = Some(VendorLink)
    /\ email.sender = Some(Username)
    /\ extracted[1] = Some(<<Uuid2>>)

\* a text argument that is absent or the empty string
AbsentOrEmpty(arg) == arg \in {None, Some(<<>>)}

----------------------------------------------------------------------------
(* Properties of validate_order_id *)

HexDigitsEitherCase ==
    {"0", "1", "2", "3", "4", "5", "6", "7", "8", "9",
     "a", "b", "c", "d", "e", "f", "A", "B", "C", "D", "E", "F"}

\* the pieces of a text between its hyphens
RECURSIVE SplitOnHyphen(_)
SplitOnHyphen(text) ==
    LET hyphens == {k \in 1..Len(text) : text[k] = "-"}
    IN  IF hyphens = {} THEN <<text>>
        ELSE LET k == CHOOSE k \in hyphens : \A j \in hyphens : k <= j
             IN  <<SubSeq(text, 1, k - 1)>>
                 \o SplitOnHyphen(SubSeq(text, k + 1, Len(text)))

\* hex groups of 8, 4, 4, 4 and 12 characters joined by hyphens
IsHyphenatedHex(text) ==
    LET groups == SplitOnHyphen(text)
    IN  /\ Len(groups) = Len(GroupLengths)
        /\ \A g \in 1..Len(groups) :
               /\ Len(groups[g]) = GroupLengths[g]
               /\ \A k \in 1..Len(groups[g]) : groups[g][k] \in HexDigitsEitherCase

\* C24: validate_order_id(s) is true exactly when s without its surrounding
\* whitespace is hex groups of 8, 4, 4, 4 and 12 characters joined by
\* hyphens, in either case; it is false for the empty string and for
\* whitespace only.
C24_ValidIffHyphenatedHex ==
    verdict # None =>
        /\ verdict[1] <=> IsHyphenatedHex(Strip(candidate))
        /\ Strip(candidate) = <<>> => ~verdict[1]

C24_Witness ==
    /\ verdict = Some(TRUE)
    /\ candidate = <<" ">> \o [Hyphenated("F", 1) EXCEPT ![1] = "0"] \o <<"\n">>

----------------------------------------------------------------------------
(* Properties of the set_order_id service *)

\* the entries a call is aimed at: those whose sensor it names, all of them
\* when it names no entity
Targeted(c) ==
    IF c.entity_ids = None \/ c.entity_ids[1] = {} THEN EntryIds
    ELSE {e \in EntryIds : SensorOf(e) \in c.entity_ids[1]}

\* C30: a set_order_id call with an identifier that fails the UUID validation
\* changes no coordinator and no config entry; with a valid identifier every
\* targeted coordinator tracks the trimmed, lowercased identifier afterwards
\* and its config entry stores the same identifier.
C30_ServiceSetsNormalizedId ==
    [][ call'.op = "set_order_id" =>
            IF ~validate_order_id(call'.order_id)
            THEN UNCHANGED <<pollers, entries>>
            ELSE \A e \in Targeted(call') :
                     /\ pollers'[e].order_id = Lower(Strip(call'.order_id))
                     /\ entries'[e].order_id = Lower(Strip(call'.order_id)) ]_vars

C30_Witness ==
    /\ call.op = "set_order_id"
    /\ call.order_id = <<" ", Uuid2Upper, "\n">>
    /\ call.entity_ids = Some({SensorOf(1)})
    /\ pollers[1].order_id = <<Uuid2>>
    /\ entries[1].order_id = <<Uuid2>>
    /\ pollers[2].order_id = PendingOrderId
    /\ entries[2].order_id = PendingOrderId

----------------------------------------------------------------------------
(* Properties of the config flow *)

\* C26: the user step with a valid order id creates a config entry with that
\* id in lowercase and the given polling interval (15 when none is given);
\* with an invalid order id it creates no entry and shows the form again with
\* the error invalid_order_id.
C26_UserStepCreatesEntry ==
    (flow.step = "user" /\ flow.user_input # None) =>
        IF validate_order_id(flow.user_input[1].order_id)
        THEN /\ flow.result.type = "create_entry"
             /\ flow.result.data.order_id = Lower(Strip(flow.user_input[1].order_id))
             /\ flow.result.data.polling_interval =
                    IF flow.user_input[1].polling_interval = None
                    THEN DEFAULT_POLLING_INTERVAL
                    ELSE flow.user_input[1].polling_interval[1]
        ELSE /\ flow.result.type = "form"
             /\ "base" \in DOMAIN flow.result.errors
             /\ flow.result.errors["base"] = "invalid_order_id"

====
